---- MODULE Spec2Model ----
(***************************************************************************)
(* A model of pyart.correct.dealias.dealias_fourdd, the front end to the   *)
(* 4DD Doppler dealiasing code, and of its helper _create_rsl_volume.      *)
(*                                                                         *)
(* One call of dealias_fourdd is a state machine: Init is the state at     *)
(* function entry with the arguments bound, every action is one block of   *)
(* the function body, and pc is the position in the body.  The compiled    *)
(* collaborators (_fourdd_interface, _rsl_interface) are not part of the   *)
(* Python source; they are modelled by the outcomes their contract allows. *)
(***************************************************************************)
EXTENDS Integers, Sequences, FiniteSets, TLC

(***************************************************************************)
(* Bounds of the model.                                                    *)
(***************************************************************************)
\* number of gates of every field array (the ray x gate array, flattened)
NGates == 2

Gates == 1..NGates

(***************************************************************************)
(* Floating point values.  A value is a number (an integer stands for the  *)
(* float of that value), NaN or +infinity.                                 *)
(***************************************************************************)
Num(v) == [kind |-> "num", v |-> v]

NaN == [kind |-> "nan", v |-> 0]

Inf == [kind |-> "inf", v |-> 0]

\* np.isnan
isnan(x) == x.kind = "nan"

\* the IEEE comparison ==, which NaN never satisfies
FloatEq(x, y) == ~isnan(x) /\ ~isnan(y) /\ x = y

\* np.isfinite
isfinite(x) == x.kind = "num"

\* astype(np.float32) of one value: integers up to 2^24 in magnitude are exact;
\* between 2^24 and 2^25 the float32 spacing is 2 and ties round to the even
\* mantissa.  (The model holds no value beyond 2^25.)
Float32(x) ==
    IF x.kind # "num" THEN x
    ELSE LET a == IF x.v < 0 THEN 0 - x.v ELSE x.v
             s == IF x.v < 0 THEN 0 - 1 ELSE 1
             lo == (a \div 2) * 2
             r == IF a = lo THEN lo
                  ELSE IF (lo \div 2) % 2 = 0 THEN lo ELSE lo + 2
         IN IF a <= 2^24 THEN x ELSE Num(s * r)

\* get_fillvalue(): the configured fill value, -9999.0 in the default config
get_fillvalue == Num(0 - 9999)

\* the default of the rsl_badval parameter
rsl_badval == Num(131072)

\* a float64 velocity that float32 cannot hold exactly
Wide == Num(2^24 + 1)

(***************************************************************************)
(* Arrays.  An array is a record: data (the values), mask (all FALSE for a *)
(* plain ndarray), isMA (is it a numpy.ma.MaskedArray) and buf (the name   *)
(* of the memory buffer that holds the data, which an in-place write       *)
(* changes for every array that shares it).                                *)
(***************************************************************************)
NoMask == [i \in Gates |-> FALSE]

NdArray(data, buf) == [data |-> data, mask |-> NoMask, isMA |-> FALSE, buf |-> buf]

MaskedArray(data, mask, buf) == [data |-> data, mask |-> mask, isMA |-> TRUE, buf |-> buf]

\* The argument None
None == [isNone |-> TRUE]

\* np.copy(a).astype(np.float32) without the copy: a float32 view that shares
\* the buffer of a
ViewAsFloat32(a) == NdArray([i \in Gates |-> Float32(a.data[i])], a.buf)

\* np.copy(a).astype(np.float32): np.copy returns a base-class ndarray holding
\* a copy of the data of a (the mask of a MaskedArray is not carried over),
\* astype converts every value
CopyAsFloat32(a) == NdArray([i \in Gates |-> Float32(a.data[i])], "fdata")

\* np.ma.filled(a, fill_value): a MaskedArray gives a new ndarray with its
\* masked entries replaced, any other ndarray is returned as it is
ma_filled(a, fill_value) ==
    IF a.isMA
    THEN NdArray([i \in Gates |-> IF a.mask[i] THEN fill_value ELSE a.data[i]], "filled")
    ELSE a

(***************************************************************************)
(* _create_rsl_volume                                                      *)
(***************************************************************************)
\* fdata if only the fill value, and not NaN, were taken for bad
CreateRslFdataFillOnly(field, badval, excluded) ==
    LET fill_value == get_fillvalue
        f1 == ma_filled(CopyAsFloat32(field), fill_value)
        f2 == [f1 EXCEPT !.data =
                 [i \in Gates |-> IF FloatEq(f1.data[i], fill_value)
                                  THEN badval ELSE f1.data[i]]]
    IN IF excluded.isNone THEN f2
       ELSE [f2 EXCEPT !.data =
               [i \in Gates |-> IF excluded.m[i] THEN badval ELSE f2.data[i]]]

\* The array fdata handed to _rsl_interface.create_volume: the field's data
\* after the bad-value substitution and the exclusion, both written in place
\* into fdata.  excluded is None or a record holding the boolean gate mask.
CreateRslFdata(field, badval, excluded) ==
    LET fill_value == get_fillvalue
        f0 == CopyAsFloat32(field)
        f1 == ma_filled(f0, fill_value)
        is_bad == [i \in Gates |->
                     FloatEq(f1.data[i], fill_value) \/ isnan(f1.data[i])]
        f2 == [f1 EXCEPT !.data =
                 [i \in Gates |-> IF is_bad[i] THEN badval ELSE f1.data[i]]]
    IN IF excluded.isNone THEN f2
       ELSE [f2 EXCEPT !.data =
               [i \in Gates |-> IF excluded.m[i] THEN badval ELSE f2.data[i]]]

\* rays_per_sweep with every sweep taken to be one ray long
RaysPerSweepOneRay(radar) == [s \in DOMAIN radar.sweep_start_ray_index |-> 1]

\* rays_per_sweep of a radar: sweep_end_ray_index - sweep_start_ray_index + 1
RaysPerSweep(radar) ==
    [s \in DOMAIN radar.sweep_start_ray_index |->
        radar.sweep_end_ray_index[s] - radar.sweep_start_ray_index[s] + 1]

\* The volume _create_rsl_volume returns: _rsl_interface.create_volume copies
\* fdata into a new RSL volume, _label_volume labels it from the radar.
CreateRslVolume(radar, field_name, vol_num, badval, excluded) ==
    [isNone |-> FALSE,
     data |-> CreateRslFdata(radar.fields[field_name], badval, excluded).data,
     rays_per_sweep |-> RaysPerSweep(radar),
     vol_num |-> vol_num,
     nyquist |-> radar.nyquist]

\* The fields of a radar after an in-place write that left the array arr: a
\* field changes if and only if it shares its buffer with arr.
WriteThrough(fields, arr) ==
    [n \in DOMAIN fields |->
        IF fields[n].buf = arr.buf
        THEN [fields[n] EXCEPT !.data = arr.data]
        ELSE fields[n]]

\* The fields of a radar after _create_rsl_volume has written into fdata.
FieldsAfterCreate(radar, field_name, badval, excluded) ==
    WriteThrough(radar.fields,
                 CreateRslFdata(radar.fields[field_name], badval, excluded))

(***************************************************************************)
(* The compiled collaborators, modelled by their contract.                 *)
(***************************************************************************)
\* the longest sounding the C code is documented to handle
SoundingLimit == 999

\* A wind profile the synthesis can use: not empty, heights increasing, no
\* more than SoundingLimit samples.
ProfileValid(hc) == hc.n > 0 /\ hc.increasing /\ hc.n <= SoundingLimit

\* _fourdd_interface.create_soundvolume: the values of success it can return
\* for a profile.  A usable profile may still fail (no sample in the height
\* range of the volume); an empty or non-monotonic one fails; beyond
\* SoundingLimit samples the routine is unreliable and may do either.
SoundvolumeOutcomes(hc) ==
    IF hc.n > SoundingLimit THEN {0, 1}
    ELSE IF ProfileValid(hc) THEN {0, 1} ELSE {0}

\* The sounding volume: congruent to the reference volume it is built from.
\* The front end never reads its gates; they stand for the projected wind.
SoundVolume(ref, hc, sign) ==
    [isNone |-> FALSE,
     data |-> [i \in Gates |-> Num(sign * hc.n)],
     rays_per_sweep |-> ref.rays_per_sweep,
     vol_num |-> ref.vol_num,
     nyquist |-> ref.nyquist]

\* the documented ranges of ba_mincount and ba_edgecount
BaMincountMax == 8

BaEdgecountMax == 5

ParametersInRange(kw) ==
    /\ kw.ba_mincount \in 1..BaMincountMax
    /\ kw.ba_edgecount \in 1..BaEdgecountMax

SameGeometry(a, b) == a.rays_per_sweep = b.rays_per_sweep

\* The structural errors on which the engine fails the whole call.
EngineErrors(vel, last, sound, kw) ==
    (IF ParametersInRange(kw) THEN {}
     ELSE {[type |-> "ConfigurationError", msg |-> "parameter out of range"]})
    \cup
    (IF (last.isNone \/ SameGeometry(vel, last))
        /\ (sound.isNone \/ SameGeometry(vel, sound)) THEN {}
     ELSE {[type |-> "ConfigurationError", msg |-> "volume geometries differ"]})

\* a velocity unfolded by one Nyquist interval
Unfold(g, nyquist) == IF g.kind = "num" THEN Num(g.v + 2 * nyquist) ELSE g

\* The raw values the engine can return for a gate: a bad gate stays bad; any
\* other gate is left as observed, unfolded, removed (the bad sentinel), or
\* comes back as NaN or as the fill value.
EngineGateOutputs(g, nyquist) ==
    IF g = rsl_badval THEN {rsl_badval}
    ELSE {g, Unfold(g, nyquist), rsl_badval, NaN, get_fillvalue}

\* _fourdd_interface.fourdd_dealias(..., debug=False): the data arrays it can
\* return for a velocity volume
EngineData(vel) ==
    LET outs == UNION {EngineGateOutputs(vel.data[i], vel.nyquist) : i \in Gates}
    IN {d \in [Gates -> outs] :
          \A i \in Gates : d[i] \in EngineGateOutputs(vel.data[i], vel.nyquist)}

\* the success flag returned with a data array: no gate was resolved = 0
EngineFlag(d) == IF \A i \in Gates : d[i] = rsl_badval THEN 0 ELSE 1

(***************************************************************************)
(* The reconciliation of the engine output (end of dealias_fourdd).        *)
(***************************************************************************)
\* np.ma.masked_equal(d, value): masks the entries equal to value and makes
\* value the fill_value of the result
masked_equal(d, value) ==
    [data |-> d, mask |-> [i \in Gates |-> FloatEq(d[i], value)],
     isMA |-> TRUE, buf |-> "data", fill_value |-> value]

\* The bad gates take the original value whatever keep_original is.
SetBadValuesAlwaysKeep(data, vel_array, keep, badval, fill_value) ==
    LET is_bad_data == [i \in Gates |->
                          isnan(data.data[i]) \/ FloatEq(data.data[i], badval)]
    IN NdArray([i \in Gates |->
                  IF is_bad_data[i] THEN vel_array.data[i] ELSE data.data[i]],
               "where")

\* The engine's data with the bad values set: with keep_original np.where
\* makes a new array in which the bad gates take the original value (it reads
\* the data of vel_array, not its mask); without it fill_value is written into
\* the bad gates of data, in place.
SetBadValues(data, vel_array, keep, badval, fill_value) ==
    LET is_bad_data == [i \in Gates |->
                          isnan(data.data[i]) \/ FloatEq(data.data[i], badval)]
    IN IF keep
       THEN NdArray([i \in Gates |->
                       IF is_bad_data[i] THEN vel_array.data[i] ELSE data.data[i]],
                    "where")
       ELSE [data EXCEPT !.data =
               [i \in Gates |-> IF is_bad_data[i] THEN fill_value ELSE data.data[i]]]

\* get_field_name: the configured name of a field
get_field_name(field) == field

(***************************************************************************)
(* The state of one call.                                                  *)
(***************************************************************************)
VARIABLES
    FOURDD_AVAILABLE,        \* did the import of the compiled modules succeed
    radar, last_radar,       \* the Radar arguments (last_radar may be None)
    sounding_heights, sounding_wind_speeds, sounding_wind_direction,
    keep_original, debug,
    kwargs,                  \* the engine's tuning parameters passed through
    vel_field, corr_vel_field, last_vel_field,
    excluded,                \* gatefilter.gate_excluded
    vel_volume, last_vel_volume, sound_volume,
    soundvolume_calls,       \* the calls of create_soundvolume made so far
    dealias_calls,           \* the calls of fourdd_dealias made so far
    raw,                     \* (flag, data) returned by fourdd_dealias
    result,                  \* what the call returned
    err,                     \* the exception the call raised
    pc,
    func,                    \* the function that is called
    dset,                    \* the netCDF dataset read or written
    grid,                    \* the Grid passed to write_grid
    exclude_fields,
    field_keys,              \* what is left of the loop over the fields
    fields,                  \* the field dictionary a read has filled so far
    warned                   \* the warnings issued so far

vars == <<FOURDD_AVAILABLE, radar, last_radar, sounding_heights,
          sounding_wind_speeds, sounding_wind_direction, keep_original, debug,
          kwargs, vel_field, corr_vel_field, last_vel_field, excluded,
          vel_volume, last_vel_volume, sound_volume, soundvolume_calls,
          dealias_calls, raw, result, err, pc,
          func, dset, grid, exclude_fields, field_keys, fields, warned>>

\* the state of a call of a function of pyart.io.grid_io
grid_vars == <<func, dset, grid, exclude_fields, field_keys, fields, warned>>

args == <<FOURDD_AVAILABLE, sounding_heights, sounding_wind_speeds,
          sounding_wind_direction, keep_original, debug, kwargs>>

NoneStr == "None"

NoError == [type |-> "", msg |-> ""]

NoResult == [kind |-> "none"]

NoRaw == [isNone |-> TRUE]

\* the default values of the parameters filt and sign
filt == 1

sign == 1

(***************************************************************************)
(* The inputs.                                                             *)
(***************************************************************************)
\* sweep layouts of a radar whose field holds NGates gates: one sweep of
\* NGates rays of one gate, or one sweep of a single ray of NGates gates
ManyRays == [start |-> <<0>>, end |-> <<NGates - 1>>]

SingleRay == [start |-> <<0>>, end |-> <<0>>]

Layouts == {ManyRays, SingleRay}

RadarOf(name, array, layout) ==
    [isNone |-> FALSE,
     fields |-> [n \in {name} |-> array],
     sweep_start_ray_index |-> layout.start,
     sweep_end_ray_index |-> layout.end,
     nyquist |-> 10]

\* the radar with one more field
WithField(r, name, array) ==
    [r EXCEPT !.fields =
        [n \in DOMAIN r.fields \cup {name} |->
            IF n = name THEN array ELSE r.fields[n]]]

\* a name for the corrected velocities that is not the configured default
OwnCorrName == "dealiased_velocity"

\* a gate of a field: <<value, masked>>
AllGateChoices ==
    {<<v, FALSE>> : v \in {NaN, Inf, get_fillvalue, rsl_badval, Num(5), Wide}}
    \cup {<<get_fillvalue, TRUE>>, <<Num(5), TRUE>>}

FewGateChoices == {<<Num(5), FALSE>>, <<NaN, FALSE>>}

FieldArrays(choices, buf) ==
    {MaskedArray([i \in Gates |-> c[i][1]], [i \in Gates |-> c[i][2]], buf) :
        c \in [Gates -> choices]}

HeightArray(n, increasing) == [isNone |-> FALSE, n |-> n, increasing |-> increasing]

WindArray == [isNone |-> FALSE]

\* the sounding height arrays: empty, usable, not increasing, too long
Profiles ==
    {HeightArray(0, TRUE), HeightArray(2, TRUE), HeightArray(2, FALSE),
     HeightArray(SoundingLimit + 1, TRUE)}

KwargsOf(mincount, edgecount) == [ba_mincount |-> mincount, ba_edgecount |-> edgecount]

\* a dictionary with no entry
NoEntries == [n \in {} |-> <<>>]

\* a call of dealias_fourdd: nothing of pyart.io.grid_io is in use
DealiasCalled ==
    /\ func = "dealias_fourdd"
    /\ dset = None
    /\ grid = None
    /\ exclude_fields = {}
    /\ field_keys = <<>>
    /\ fields = NoEntries
    /\ warned = <<>>

Started ==
    /\ vel_field = NoneStr
    /\ last_vel_field = NoneStr
    /\ excluded = None
    /\ vel_volume = None
    /\ last_vel_volume = None
    /\ sound_volume = None
    /\ soundvolume_calls = <<>>
    /\ dealias_calls = <<>>
    /\ raw = NoRaw
    /\ result = NoResult
    /\ err = NoError
    /\ pc = "start"

\* Every combination of the arguments that steer the call, on a few fields
\* (among them the field whose every gate is the bad sentinel).
Init ==
    /\ FOURDD_AVAILABLE \in BOOLEAN
    /\ radar \in {RadarOf("velocity", f, ManyRays) :
                    f \in FieldArrays(FewGateChoices, "radar")
                          \cup FieldArrays({<<rsl_badval, FALSE>>}, "radar")}
    /\ last_radar \in {None} \cup
         {WithField(RadarOf("corrected_velocity", f, l), OwnCorrName, g) :
            f \in FieldArrays({<<Num(5), FALSE>>}, "last_radar"),
            g \in FieldArrays({<<Num(7), FALSE>>}, "last_radar_own"),
            l \in Layouts}
    /\ corr_vel_field \in {NoneStr, OwnCorrName}
    /\ sounding_heights \in {None} \cup Profiles
    /\ sounding_wind_speeds \in {None, WindArray}
    /\ sounding_wind_direction \in {None, WindArray}
    /\ keep_original \in BOOLEAN
    /\ debug \in BOOLEAN
    /\ kwargs \in {KwargsOf(m, e) : m \in {5, BaMincountMax + 1}, e \in {0, 3}}
    /\ DealiasCalled
    /\ Started

\* Every field of a few gates, on the calls that reach the engine.
InitData ==
    /\ FOURDD_AVAILABLE = TRUE
    /\ radar \in {RadarOf("velocity", f, ManyRays) :
                    f \in FieldArrays(AllGateChoices, "radar")}
    /\ last_radar \in {None} \cup
         {RadarOf("corrected_velocity", f, ManyRays) :
            f \in FieldArrays({<<NaN, FALSE>>, <<Num(5), TRUE>>}, "last_radar")}
    /\ sounding_heights = HeightArray(2, TRUE)
    /\ sounding_wind_speeds = WindArray
    /\ sounding_wind_direction = WindArray
    /\ keep_original \in BOOLEAN
    /\ debug = FALSE
    /\ kwargs = KwargsOf(5, 3)
    /\ corr_vel_field = NoneStr
    /\ DealiasCalled
    /\ Started

(***************************************************************************)
(* dealias_fourdd, block by block.                                         *)
(***************************************************************************)
\* sounding_available with the three tests joined by "or"
sounding_available_any ==
    \/ ~sounding_heights.isNone
    \/ ~sounding_wind_speeds.isNone
    \/ ~sounding_wind_direction.isNone

sounding_available ==
    /\ ~sounding_heights.isNone
    /\ ~sounding_wind_speeds.isNone
    /\ ~sounding_wind_direction.isNone

MissingOptionalDependency ==
    [type |-> "MissingOptionalDependency",
     msg |-> "Py-ART must be build with support for TRMM RSL"]

NoSourceError ==
    [type |-> "ValueError", msg |-> "sounding data or last_radar must be provided"]

SoundingError ==
    [type |-> "ValueError", msg |-> "Error when loading sounding data"]

Raise(e) ==
    /\ err' = e
    /\ pc' = "raised"

\* the check that FourDD is available
RaiseMissingOptionalDependency ==
    /\ pc = "start"
    /\ ~FOURDD_AVAILABLE
    /\ Raise(MissingOptionalDependency)
    /\ UNCHANGED <<grid_vars, args, radar, last_radar, vel_field, corr_vel_field,
                   last_vel_field, excluded, vel_volume, last_vel_volume,
                   sound_volume, soundvolume_calls, dealias_calls, raw, result>>

\* the check that sounding data or last_radar is provided is not made
SkipSourceCheck ==
    /\ pc = "start"
    /\ FOURDD_AVAILABLE
    /\ (~sounding_available) /\ last_radar.isNone
    /\ pc' = "parse"
    /\ UNCHANGED <<grid_vars, args, radar, last_radar, vel_field, corr_vel_field,
                   last_vel_field, excluded, vel_volume, last_vel_volume,
                   sound_volume, soundvolume_calls, dealias_calls, raw, result,
                   err>>

\* the check that sounding data or last_radar is provided: it fails
RaiseNoSource ==
    /\ pc = "start"
    /\ FOURDD_AVAILABLE
    /\ (~sounding_available) /\ last_radar.isNone
    /\ Raise(NoSourceError)
    /\ UNCHANGED <<grid_vars, args, radar, last_radar, vel_field, corr_vel_field,
                   last_vel_field, excluded, vel_volume, last_vel_volume,
                   sound_volume, soundvolume_calls, dealias_calls, raw, result>>

\* the check that sounding data or last_radar is provided: it passes
VerifySource ==
    /\ pc = "start"
    /\ FOURDD_AVAILABLE
    /\ ~((~sounding_available) /\ last_radar.isNone)
    /\ pc' = "parse"
    /\ UNCHANGED <<grid_vars, args, radar, last_radar, vel_field, corr_vel_field,
                   last_vel_field, excluded, vel_volume, last_vel_volume,
                   sound_volume, soundvolume_calls, dealias_calls, raw, result,
                   err>>

\* the field parameters, the fill value and the gate filter are parsed; the
\* gate filter the caller passed excludes any set of gates
ParseParameters ==
    /\ pc = "parse"
    /\ vel_field' = IF vel_field = NoneStr
                    THEN get_field_name("velocity") ELSE vel_field
    /\ corr_vel_field' = IF corr_vel_field = NoneStr
                         THEN get_field_name("corrected_velocity")
                         ELSE corr_vel_field
    /\ last_vel_field' = IF last_vel_field = NoneStr
                         THEN get_field_name("corrected_velocity")
                         ELSE last_vel_field
    /\ \E m \in [Gates -> BOOLEAN] : excluded' = [isNone |-> FALSE, m |-> m]
    /\ pc' = "vel_volume"
    /\ UNCHANGED <<grid_vars, args, radar, last_radar, vel_volume, last_vel_volume,
                   sound_volume, soundvolume_calls, dealias_calls, raw, result,
                   err>>

\* vel_volume = _create_rsl_volume(radar, vel_field, 1, rsl_badval, excluded)
CreateVelVolume ==
    /\ pc = "vel_volume"
    /\ vel_volume' = CreateRslVolume(radar, vel_field, 1, rsl_badval, excluded)
    /\ radar' = [radar EXCEPT !.fields =
                   FieldsAfterCreate(radar, vel_field, rsl_badval, excluded)]
    /\ pc' = "last_volume"
    /\ UNCHANGED <<grid_vars, args, last_radar, vel_field, corr_vel_field, last_vel_field,
                   excluded, last_vel_volume, sound_volume, soundvolume_calls,
                   dealias_calls, raw, result, err>>

\* last_vel_volume = _create_rsl_volume(last_radar, last_vel_field, 1, rsl_badval)
CreateLastVolume ==
    /\ pc = "last_volume"
    /\ ~last_radar.isNone
    /\ last_vel_volume' =
         CreateRslVolume(last_radar, last_vel_field, 1, rsl_badval, None)
    /\ last_radar' = [last_radar EXCEPT !.fields =
                        FieldsAfterCreate(last_radar, last_vel_field, rsl_badval, None)]
    /\ pc' = "sounding"
    /\ UNCHANGED <<grid_vars, args, radar, vel_field, corr_vel_field, last_vel_field,
                   excluded, vel_volume, sound_volume, soundvolume_calls,
                   dealias_calls, raw, result, err>>

\* last_vel_volume = None
NoLastVolume ==
    /\ pc = "last_volume"
    /\ last_radar.isNone
    /\ last_vel_volume' = None
    /\ pc' = "sounding"
    /\ UNCHANGED <<grid_vars, args, radar, last_radar, vel_field, corr_vel_field,
                   last_vel_field, excluded, vel_volume, sound_volume,
                   soundvolume_calls, dealias_calls, raw, result, err>>

\* the call made without the velocity volume
SoundvolumeCallNoVolume(success) ==
    [vel_volume |-> None, hc |-> sounding_heights,
     sc |-> sounding_wind_speeds, dc |-> sounding_wind_direction, sign |-> sign,
     success |-> success]

\* the call create_soundvolume(vel_volume, hc, sc, dc, sign, max_shear)
SoundvolumeCall(success) ==
    [vel_volume |-> vel_volume, hc |-> sounding_heights,
     sc |-> sounding_wind_speeds, dc |-> sounding_wind_direction, sign |-> sign,
     success |-> success]

\* the sounding volume is created: success # 0
CreateSoundVolume ==
    /\ pc = "sounding"
    /\ sounding_available
    /\ 1 \in SoundvolumeOutcomes(sounding_heights)
    /\ soundvolume_calls' = Append(soundvolume_calls, SoundvolumeCall(1))
    /\ sound_volume' = SoundVolume(vel_volume, sounding_heights, sign)
    /\ pc' = "dealias"
    /\ UNCHANGED <<grid_vars, args, radar, last_radar, vel_field, corr_vel_field,
                   last_vel_field, excluded, vel_volume, last_vel_volume,
                   dealias_calls, raw, result, err>>

\* success == 0 is not looked at: the call goes on without a sounding volume
IgnoreSoundingError ==
    /\ pc = "sounding"
    /\ sounding_available
    /\ 0 \in SoundvolumeOutcomes(sounding_heights)
    /\ soundvolume_calls' = Append(soundvolume_calls, SoundvolumeCall(0))
    /\ sound_volume' = None
    /\ pc' = "dealias"
    /\ UNCHANGED <<grid_vars, args, radar, last_radar, vel_field, corr_vel_field,
                   last_vel_field, excluded, vel_volume, last_vel_volume,
                   dealias_calls, raw, result, err>>

\* the sounding volume is not created: success == 0
RaiseSoundingError ==
    /\ pc = "sounding"
    /\ sounding_available
    /\ 0 \in SoundvolumeOutcomes(sounding_heights)
    /\ soundvolume_calls' = Append(soundvolume_calls, SoundvolumeCall(0))
    /\ Raise(SoundingError)
    /\ UNCHANGED <<grid_vars, args, radar, last_radar, vel_field, corr_vel_field,
                   last_vel_field, excluded, vel_volume, last_vel_volume,
                   sound_volume, dealias_calls, raw, result>>

\* sound_volume = None
NoSoundVolume ==
    /\ pc = "sounding"
    /\ ~sounding_available
    /\ sound_volume' = None
    /\ pc' = "dealias"
    /\ UNCHANGED <<grid_vars, args, radar, last_radar, vel_field, corr_vel_field,
                   last_vel_field, excluded, vel_volume, last_vel_volume,
                   soundvolume_calls, dealias_calls, raw, result, err>>

\* the call fourdd_dealias(vel_volume, last_vel_volume, sound_volume, filt,
\* debug=..., **kwargs)
DealiasCall ==
    [vel_volume |-> vel_volume, last_vel_volume |-> last_vel_volume,
     sound_volume |-> sound_volume, filt |-> filt, debug |-> debug,
     kwargs |-> kwargs]

\* the engine fails the whole call and its error propagates
DealiasRaises ==
    /\ pc = "dealias"
    /\ dealias_calls' = Append(dealias_calls, DealiasCall)
    /\ \E e \in EngineErrors(vel_volume, last_vel_volume, sound_volume, kwargs) :
          Raise(e)
    /\ UNCHANGED <<grid_vars, args, radar, last_radar, vel_field, corr_vel_field,
                   last_vel_field, excluded, vel_volume, last_vel_volume,
                   sound_volume, soundvolume_calls, raw, result>>

\* debug is not looked at: the engine's data goes on to be prepared for output
DealiasDebugPrepared ==
    /\ pc = "dealias"
    /\ debug
    /\ EngineErrors(vel_volume, last_vel_volume, sound_volume, kwargs) = {}
    /\ dealias_calls' = Append(dealias_calls, DealiasCall)
    /\ \E d \in EngineData(vel_volume) :
          raw' = [isNone |-> FALSE, flag |-> EngineFlag(d),
                  data |-> NdArray(d, "data")]
    /\ pc' = "prepare"
    /\ UNCHANGED <<grid_vars, args, radar, last_radar, vel_field, corr_vel_field,
                   last_vel_field, excluded, vel_volume, last_vel_volume,
                   sound_volume, soundvolume_calls, result, err>>

\* debug: what the engine returns is returned as it is
DealiasDebug ==
    /\ pc = "dealias"
    /\ debug
    /\ EngineErrors(vel_volume, last_vel_volume, sound_volume, kwargs) = {}
    /\ dealias_calls' = Append(dealias_calls, DealiasCall)
    /\ \E d \in EngineData(vel_volume) :
          result' = [kind |-> "debug", usuccess |-> EngineFlag(d),
                     radialVelVolume |-> vel_volume,
                     lastVelVolume |-> last_vel_volume,
                     unfoldedVolume |-> [vel_volume EXCEPT !.data = d],
                     sondVolume |-> sound_volume]
    /\ pc' = "returned"
    /\ UNCHANGED <<grid_vars, args, radar, last_radar, vel_field, corr_vel_field,
                   last_vel_field, excluded, vel_volume, last_vel_volume,
                   sound_volume, soundvolume_calls, raw, err>>

\* flag, data = fourdd_dealias(..., debug=False, **kwargs)
Dealias ==
    /\ pc = "dealias"
    /\ ~debug
    /\ EngineErrors(vel_volume, last_vel_volume, sound_volume, kwargs) = {}
    /\ dealias_calls' = Append(dealias_calls, DealiasCall)
    /\ \E d \in EngineData(vel_volume) :
          raw' = [isNone |-> FALSE, flag |-> EngineFlag(d),
                  data |-> NdArray(d, "data")]
    /\ pc' = "prepare"
    /\ UNCHANGED <<grid_vars, args, radar, last_radar, vel_field, corr_vel_field,
                   last_vel_field, excluded, vel_volume, last_vel_volume,
                   sound_volume, soundvolume_calls, result, err>>

\* the data is prepared for output and the field dictionary returned
PrepareOutput ==
    /\ pc = "prepare"
    /\ LET fill_value == get_fillvalue
           set == SetBadValues(raw.data, radar.fields[vel_field],
                               keep_original, rsl_badval, fill_value)
           data == masked_equal(set.data, fill_value)
       IN /\ result' = [kind |-> "field", name |-> corr_vel_field,
                        data |-> data, FillValue |-> data.fill_value]
          /\ radar' = [radar EXCEPT !.fields = WriteThrough(radar.fields, set)]
    /\ pc' = "returned"
    /\ UNCHANGED <<grid_vars, args, last_radar, vel_field, corr_vel_field,
                   last_vel_field, excluded, vel_volume, last_vel_volume,
                   sound_volume, soundvolume_calls, dealias_calls, raw, err>>

Next ==
    \/ RaiseMissingOptionalDependency
    \/ RaiseNoSource
    \/ VerifySource
    \/ ParseParameters
    \/ CreateVelVolume
    \/ CreateLastVolume
    \/ NoLastVolume
    \/ CreateSoundVolume
    \/ RaiseSoundingError
    \/ NoSoundVolume
    \/ DealiasRaises
    \/ DealiasDebug
    \/ Dealias
    \/ PrepareOutput

Spec == Init /\ [][Next]_vars

\* the calls that reach the engine and return a field
NextData ==
    \/ VerifySource
    \/ ParseParameters
    \/ CreateVelVolume
    \/ CreateLastVolume
    \/ NoLastVolume
    \/ CreateSoundVolume
    \/ RaiseSoundingError
    \/ Dealias
    \/ PrepareOutput

SpecData == InitData /\ [][NextData]_vars

(***************************************************************************)
(* pyart.io.grid_io: the field loops of read_grid, read_legacy_grid and    *)
(* write_grid.  An array is its shape, a dataset its dimensions and the    *)
(* shapes of its variables in file order.                                  *)
(***************************************************************************)
\* the variables read_grid does not take for fields
reserved_variables ==
    {"time", "x", "y", "z",
     "origin_latitude", "origin_longitude", "origin_altitude",
     "point_x", "point_y", "point_z", "projection",
     "point_latitude", "point_longitude", "point_altitude",
     "radar_latitude", "radar_longitude", "radar_altitude",
     "radar_name", "radar_time", "base_time", "time_offset",
     "ProjectionCoordinateSystem"}

\* the variables read_legacy_grid does not take for fields
axes_keys ==
    {"time", "time_start", "time_end", "base_time", "time_offset",
     "z_disp", "y_disp", "x_disp", "alt", "lat", "lon", "z", "lev", "y", "x"}

\* the dimensions read_legacy_grid takes the shape of a field from
dim_keys == <<"nz", "ny", "nx", "z", "y", "x">>

\* tuple([len(dimensions[k]) for k in keys if k in dimensions])
ShapeOf(dimensions, keys) ==
    LET present == SelectSeq(keys, LAMBDA k : k \in DOMAIN dimensions)
    IN [i \in 1..Len(present) |-> dimensions[present[i]]]

\* the shape of a field in the Grid object, and in the file
field_shape ==
    IF func = "read_grid" THEN ShapeOf(dset.dimensions, <<"z", "y", "x">>)
    ELSE ShapeOf(dset.dimensions, dim_keys)

field_shape_with_time == <<1>> \o field_shape

\* d[k] = v
Put(d, k, v) == [n \in DOMAIN d \cup {k} |-> IF n = k THEN v ELSE d[n]]

\* the dimensions of the files and grids: three lengths under three names
Dimensions(names) ==
    [k \in {names[1], names[2], names[3]} |->
        IF k = names[1] THEN 1 ELSE IF k = names[2] THEN 2 ELSE 3]

\* the coordinate variables every file holds, and the candidate fields
CoordNames == <<"time", "z", "y", "x">>

FieldNames == <<"reflectivity", "velocity", "ROI">>

CoordShape(k) == IF k = "time" \/ k = "z" THEN <<1>>
                 ELSE IF k = "y" THEN <<2>> ELSE <<3>>

\* the shapes of a variable of a file: that of a field, one without the time
\* dimension, one of another size
VariableShapes == {<<1, 1, 2, 3>>, <<1, 2, 3>>, <<1, 1, 2, 4>>}

\* the keys of names that d holds, in the order of names
KeysOf(names, d) == SelectSeq(names, LAMBDA k : k \in DOMAIN d)

\* the datasets with the given dimensions: the coordinate variables and any
\* of the candidate fields, each in any of the shapes
Datasets(dimensions) ==
    LET names == {FieldNames[i] : i \in DOMAIN FieldNames}
        coords == {CoordNames[i] : i \in DOMAIN CoordNames}
    IN {[isNone |-> FALSE,
         dimensions |-> dimensions,
         keys |-> CoordNames \o KeysOf(FieldNames, f),
         variables |-> [n \in coords \cup DOMAIN f |->
                          IF n \in DOMAIN f THEN f[n] ELSE CoordShape(n)]] :
          f \in UNION {[S -> VariableShapes] : S \in SUBSET names}}

\* the names a Grid may hold a field under, and the shapes of its data
GridFieldNames == <<"reflectivity", "velocity", "x">>

GridShapes == {<<1, 2, 3>>, <<1, 2, 4>>}

\* the Grid objects passed to write_grid
Grids ==
    LET names == {GridFieldNames[i] : i \in DOMAIN GridFieldNames}
    IN {[isNone |-> FALSE, nz |-> 1, ny |-> 2, nx |-> 3,
         keys |-> KeysOf(GridFieldNames, f), fields |-> f] :
          f \in UNION {[S -> GridShapes] : S \in SUBSET names}}

\* a call of a function of grid_io: nothing of dealias_fourdd is in use
GridCalled ==
    /\ FOURDD_AVAILABLE = FALSE
    /\ radar = None
    /\ last_radar = None
    /\ sounding_heights = None
    /\ sounding_wind_speeds = None
    /\ sounding_wind_direction = None
    /\ keep_original = FALSE
    /\ debug = FALSE
    /\ kwargs = NoEntries
    /\ corr_vel_field = NoneStr
    /\ Started

InitGrid ==
    /\ \/ /\ func = "read_grid"
          /\ dset \in Datasets(Dimensions(<<"z", "y", "x">>))
          /\ exclude_fields \in {{}, {"velocity"}, {"ROI"}}
          /\ grid = None
       \/ /\ func = "read_legacy_grid"
          /\ dset \in Datasets(Dimensions(<<"nz", "ny", "nx">>))
                      \cup Datasets(Dimensions(<<"z", "y", "x">>))
          /\ exclude_fields \in {{}, {"velocity"}, {"ROI"}}
          /\ grid = None
       \/ /\ func = "write_grid"
          /\ grid \in Grids
          /\ dset = None
          /\ exclude_fields = {}
    /\ field_keys = <<>>
    /\ fields = NoEntries
    /\ warned = <<>>
    /\ GridCalled

\* warnings.warn('Field %s skipped due to incorrect shape' % (field))
SkippedWarning(field) == <<"UserWarning", "skipped due to incorrect shape", field>>

DeprecationWarning ==
    <<"DeprecationWarning", "read_legacy_grid is depreciated", "read_legacy_grid">>

\* the name warn is not defined in the module
NameError == [type |-> "NameError", msg |-> "name 'warn' is not defined"]

\* what _create_ncvar raises
CreateNcvarError == [type |-> "Exception", msg |-> "_create_ncvar"]

\* read_grid up to the loop over the fields
ReadGridOpen ==
    /\ func = "read_grid" /\ pc = "start"
    /\ field_keys' = SelectSeq(dset.keys, LAMBDA k : k \notin reserved_variables)
    /\ fields' = NoEntries
    /\ pc' = "fields"
    /\ UNCHANGED <<args, radar, last_radar, vel_field, corr_vel_field,
                   last_vel_field, excluded, vel_volume, last_vel_volume,
                   sound_volume, soundvolume_calls, dealias_calls, raw, result,
                   err, func, dset, grid, exclude_fields, warned>>

\* if field in exclude_fields: continue
ReadGridExcluded ==
    /\ func = "read_grid" /\ pc = "fields"
    /\ field_keys # <<>>
    /\ Head(field_keys) \in exclude_fields
    /\ field_keys' = Tail(field_keys)
    /\ UNCHANGED <<args, radar, last_radar, vel_field, corr_vel_field,
                   last_vel_field, excluded, vel_volume, last_vel_volume,
                   sound_volume, soundvolume_calls, dealias_calls, raw, result,
                   err, pc, func, dset, grid, exclude_fields, fields, warned>>

\* a field of shape (1, nz, ny, nx) is reshaped and taken
ReadGridField ==
    /\ func = "read_grid" /\ pc = "fields"
    /\ field_keys # <<>>
    /\ Head(field_keys) \notin exclude_fields
    /\ dset.variables[Head(field_keys)] = field_shape_with_time
    /\ fields' = Put(fields, Head(field_keys), field_shape)
    /\ field_keys' = Tail(field_keys)
    /\ UNCHANGED <<args, radar, last_radar, vel_field, corr_vel_field,
                   last_vel_field, excluded, vel_volume, last_vel_volume,
                   sound_volume, soundvolume_calls, dealias_calls, raw, result,
                   err, pc, func, dset, grid, exclude_fields, warned>>

\* a field of another shape is skipped with a warning
ReadGridSkip ==
    /\ func = "read_grid" /\ pc = "fields"
    /\ field_keys # <<>>
    /\ Head(field_keys) \notin exclude_fields
    /\ dset.variables[Head(field_keys)] # field_shape_with_time
    /\ warned' = Append(warned, SkippedWarning(Head(field_keys)))
    /\ field_keys' = Tail(field_keys)
    /\ UNCHANGED <<args, radar, last_radar, vel_field, corr_vel_field,
                   last_vel_field, excluded, vel_volume, last_vel_volume,
                   sound_volume, soundvolume_calls, dealias_calls, raw, result,
                   err, pc, func, dset, grid, exclude_fields, fields>>

\* the dataset is closed and the Grid returned
ReadGridReturn ==
    /\ func = "read_grid" /\ pc = "fields"
    /\ field_keys = <<>>
    /\ result' = [kind |-> "Grid", fields |-> fields]
    /\ pc' = "returned"
    /\ UNCHANGED <<args, radar, last_radar, vel_field, corr_vel_field,
                   last_vel_field, excluded, vel_volume, last_vel_volume,
                   sound_volume, soundvolume_calls, dealias_calls, raw,
                   err, func, dset, grid, exclude_fields, field_keys, fields,
                   warned>>

\* read_legacy_grid up to the loop over the fields
ReadLegacyOpen ==
    /\ func = "read_legacy_grid" /\ pc = "start"
    /\ warned' = Append(warned, DeprecationWarning)
    /\ field_keys' = SelectSeq(dset.keys,
                               LAMBDA k : k \notin axes_keys
                                          /\ k \notin exclude_fields)
    /\ fields' = NoEntries
    /\ pc' = "fields"
    /\ UNCHANGED <<args, radar, last_radar, vel_field, corr_vel_field,
                   last_vel_field, excluded, vel_volume, last_vel_volume,
                   sound_volume, soundvolume_calls, dealias_calls, raw, result,
                   err, func, dset, grid, exclude_fields>>

\* a field of shape (1, nz, ny, nx) is reshaped and taken
ReadLegacyField ==
    /\ func = "read_legacy_grid" /\ pc = "fields"
    /\ field_keys # <<>>
    /\ dset.variables[Head(field_keys)] = field_shape_with_time
    /\ fields' = Put(fields, Head(field_keys), field_shape)
    /\ field_keys' = Tail(field_keys)
    /\ UNCHANGED <<args, radar, last_radar, vel_field, corr_vel_field,
                   last_vel_field, excluded, vel_volume, last_vel_volume,
                   sound_volume, soundvolume_calls, dealias_calls, raw, result,
                   err, pc, func, dset, grid, exclude_fields, warned>>

\* a field of another shape: the call of warn raises NameError
ReadLegacySkipRaises ==
    /\ func = "read_legacy_grid" /\ pc = "fields"
    /\ field_keys # <<>>
    /\ dset.variables[Head(field_keys)] # field_shape_with_time
    /\ Raise(NameError)
    /\ UNCHANGED <<args, radar, last_radar, vel_field, corr_vel_field,
                   last_vel_field, excluded, vel_volume, last_vel_volume,
                   sound_volume, soundvolume_calls, dealias_calls, raw, result,
                   func, dset, grid, exclude_fields, field_keys, fields,
                   warned>>

\* the dataset is closed and the Grid returned
ReadLegacyReturn ==
    /\ func = "read_legacy_grid" /\ pc = "fields"
    /\ field_keys = <<>>
    /\ result' = [kind |-> "Grid", fields |-> fields]
    /\ pc' = "returned"
    /\ UNCHANGED <<args, radar, last_radar, vel_field, corr_vel_field,
                   last_vel_field, excluded, vel_volume, last_vel_volume,
                   sound_volume, soundvolume_calls, dealias_calls, raw,
                   err, func, dset, grid, exclude_fields, field_keys, fields,
                   warned>>

\* the variables write_grid has written when it comes to the fields (the
\* options at their defaults, no radar_ attribute)
WrittenFirst ==
    <<"time", "x", "y", "z", "origin_latitude", "origin_longitude",
      "origin_altitude", "projection", "ProjectionCoordinateSystem">>

\* write_grid up to the loop over the fields
WriteGridOpen ==
    /\ func = "write_grid" /\ pc = "start"
    /\ dset' = [isNone |-> FALSE,
                dimensions |-> [k \in {"z", "y", "x"} |->
                                  IF k = "z" THEN grid.nz
                                  ELSE IF k = "y" THEN grid.ny ELSE grid.nx],
                keys |-> WrittenFirst,
                variables |-> [n \in {WrittenFirst[i] : i \in DOMAIN WrittenFirst}
                                 |-> <<>>]]
    /\ field_keys' = grid.keys
    /\ pc' = "fields"
    /\ UNCHANGED <<args, radar, last_radar, vel_field, corr_vel_field,
                   last_vel_field, excluded, vel_volume, last_vel_volume,
                   sound_volume, soundvolume_calls, dealias_calls, raw, result,
                   err, func, grid, exclude_fields, fields, warned>>

\* _create_ncvar(field_dic, dset, field, ('time', 'z', 'y', 'x')) raises: the
\* name is that of a variable of the dataset, or the data does not fit the
\* dimensions
CreateNcvarRaises(ds, name, shape) ==
    \/ name \in DOMAIN ds.variables
    \/ shape # <<1>> \o ShapeOf(ds.dimensions, <<"z", "y", "x">>)

\* a field is written: the time dimension is put on its data and taken off
WriteField ==
    /\ func = "write_grid" /\ pc = "fields"
    /\ field_keys # <<>>
    /\ LET field == Head(field_keys)
           with_time == <<1>> \o grid.fields[field]
       IN /\ ~CreateNcvarRaises(dset, field, with_time)
          /\ dset' = [dset EXCEPT !.keys = Append(@, field),
                                  !.variables = Put(@, field, with_time)]
          /\ grid' = [grid EXCEPT !.fields[field] = Tail(with_time)]
    /\ field_keys' = Tail(field_keys)
    /\ UNCHANGED <<args, radar, last_radar, vel_field, corr_vel_field,
                   last_vel_field, excluded, vel_volume, last_vel_volume,
                   sound_volume, soundvolume_calls, dealias_calls, raw, result,
                   err, pc, func, exclude_fields, fields, warned>>

\* writing a field raises: the time dimension is left on its data
WriteFieldRaises ==
    /\ func = "write_grid" /\ pc = "fields"
    /\ field_keys # <<>>
    /\ LET field == Head(field_keys)
           with_time == <<1>> \o grid.fields[field]
       IN /\ CreateNcvarRaises(dset, field, with_time)
          /\ grid' = [grid EXCEPT !.fields[field] = with_time]
    /\ Raise(CreateNcvarError)
    /\ UNCHANGED <<args, radar, last_radar, vel_field, corr_vel_field,
                   last_vel_field, excluded, vel_volume, last_vel_volume,
                   sound_volume, soundvolume_calls, dealias_calls, raw, result,
                   func, dset, exclude_fields, field_keys, fields, warned>>

\* the metadata is written, the dataset closed
WriteGridClose ==
    /\ func = "write_grid" /\ pc = "fields"
    /\ field_keys = <<>>
    /\ pc' = "returned"
    /\ UNCHANGED <<args, radar, last_radar, vel_field, corr_vel_field,
                   last_vel_field, excluded, vel_volume, last_vel_volume,
                   sound_volume, soundvolume_calls, dealias_calls, raw, result,
                   err, func, dset, grid, exclude_fields, field_keys, fields,
                   warned>>

NextGrid ==
    \/ ReadGridOpen
    \/ ReadGridExcluded
    \/ ReadGridField
    \/ ReadGridSkip
    \/ ReadGridReturn
    \/ ReadLegacyOpen
    \/ ReadLegacyField
    \/ ReadLegacySkipRaises
    \/ ReadLegacyReturn
    \/ WriteGridOpen
    \/ WriteField
    \/ WriteFieldRaises
    \/ WriteGridClose

SpecGrid == InitGrid /\ [][NextGrid]_vars

(***************************************************************************)
(* The claims.                                                             *)
(***************************************************************************)
\* the inputs name no dealiasing source
NoSourceInputs ==
    /\ last_radar.isNone
    /\ \/ sounding_heights.isNone
       \/ sounding_wind_speeds.isNone
       \/ sounding_wind_direction.isNone

\* no volume has been built and neither compiled routine has been called
NothingBuilt ==
    /\ vel_volume.isNone
    /\ last_vel_volume.isNone
    /\ sound_volume.isNone
    /\ soundvolume_calls = <<>>
    /\ dealias_calls = <<>>

\* C1 as stated: once the checks at the head of the call are done, the "no
\* dealiasing source" error has been raised exactly when last_radar is None
\* and one of the three sounding arrays is None, and when it is raised nothing
\* has been built.
C1_RaisedExactlyWithoutSource ==
    /\ pc # "start" => ((err = NoSourceError) <=> NoSourceInputs)
    /\ err = NoSourceError => NothingBuilt

\* C1 amended: in a build with 4DD support the "no dealiasing source" error is
\* raised exactly when last_radar is None and one of the three sounding arrays
\* is None, with nothing built; without 4DD support every call raises
\* MissingOptionalDependency instead, whatever the inputs.
C1_NoSourceError ==
    /\ pc # "start" =>
         ((err = NoSourceError) <=> (FOURDD_AVAILABLE /\ NoSourceInputs))
    /\ err = NoSourceError => NothingBuilt
    /\ (pc # "start" /\ ~FOURDD_AVAILABLE) =>
         (err = MissingOptionalDependency /\ NothingBuilt)

C1_Witness ==
    /\ err = NoSourceError
    /\ ~sounding_heights.isNone
    /\ sounding_wind_speeds.isNone

\* the call has returned the field dictionary
ReturnedField == pc = "returned" /\ result.kind = "field"

\* the raw value the engine returned for gate i
RawGate(i) == raw.data.data[i]

\* a gate of the original velocity field
OrigGate(i) == radar.fields[vel_field].data[i]

\* C2: with keep_original false a gate of the returned field is masked if and
\* only if the raw output is NaN, the bad sentinel or fill_value; an unmasked
\* gate holds the raw value; the field's _FillValue is fill_value.
C2_MaskedIffBadOrFill ==
    (ReturnedField /\ ~keep_original) =>
        /\ \A i \in Gates :
             /\ result.data.mask[i] <=>
                  \/ isnan(RawGate(i))
                  \/ RawGate(i) = rsl_badval
                  \/ RawGate(i) = get_fillvalue
             /\ ~result.data.mask[i] => result.data.data[i] = RawGate(i)
        /\ result.FillValue = get_fillvalue

C2_Witness ==
    /\ ReturnedField /\ ~keep_original
    /\ \E i, j \in Gates :
         /\ isnan(RawGate(i)) /\ result.data.mask[i]
         /\ RawGate(j) = Num(25) /\ ~result.data.mask[j]

\* C3: with keep_original true a gate whose raw output is bad (NaN or the bad
\* sentinel) takes the original velocity; and a gate that was NaN in the
\* original field is masked in the returned field whatever keep_original is.
C3_KeepOriginalMasksNaN ==
    ReturnedField =>
        \A i \in Gates :
          /\ (keep_original /\ (isnan(RawGate(i)) \/ RawGate(i) = rsl_badval))
                => result.data.data[i] = OrigGate(i)
          /\ isnan(OrigGate(i)) => result.data.mask[i]

\* C4: a gate of the velocity volume holds the bad sentinel if the source gate
\* is masked, is the fill value, is NaN or is excluded; every other gate holds
\* the source value (as float32 holds it).
C4_VolumeSubstitution ==
    ~vel_volume.isNone =>
        \A i \in Gates :
          LET src == radar.fields[vel_field]
          IN IF \/ src.mask[i]
                \/ FloatEq(src.data[i], get_fillvalue)
                \/ isnan(src.data[i])
                \/ excluded.m[i]
             THEN vel_volume.data[i] = rsl_badval
             ELSE vel_volume.data[i] = Float32(src.data[i])

\* C5 as stated: every element handed to the volume constructor is finite or
\* the bad sentinel.
C5_FiniteOrSentinel ==
    /\ ~vel_volume.isNone =>
         \A i \in Gates :
           isfinite(vel_volume.data[i]) \/ vel_volume.data[i] = rsl_badval
    /\ ~last_vel_volume.isNone =>
         \A i \in Gates :
           isfinite(last_vel_volume.data[i]) \/ last_vel_volume.data[i] = rsl_badval

\* C5 amended: no NaN and no fill value remains: every element handed to the
\* volume constructor is the bad sentinel, or the float32 value of a source
\* gate that is neither NaN nor the fill value (it is infinite if the source
\* gate is).
C5_NoNaNRemains ==
    /\ ~vel_volume.isNone =>
         \A i \in Gates :
           \/ vel_volume.data[i] = rsl_badval
           \/ /\ ~isnan(vel_volume.data[i])
              /\ vel_volume.data[i] # get_fillvalue
              /\ vel_volume.data[i] = Float32(OrigGate(i))
    /\ ~last_vel_volume.isNone =>
         \A i \in Gates :
           \/ last_vel_volume.data[i] = rsl_badval
           \/ /\ ~isnan(last_vel_volume.data[i])
              /\ last_vel_volume.data[i] # get_fillvalue
              /\ last_vel_volume.data[i] =
                   Float32(last_radar.fields[last_vel_field].data[i])

C5_Witness ==
    /\ ~vel_volume.isNone
    /\ ~last_vel_volume.isNone
    /\ \E i, j \in Gates :
         /\ isnan(OrigGate(i)) /\ vel_volume.data[i] = rsl_badval
         /\ OrigGate(j) = Inf /\ vel_volume.data[j] = Inf
    /\ \E i \in Gates :
         /\ isnan(last_radar.fields[last_vel_field].data[i])
         /\ last_vel_volume.data[i] = rsl_badval

\* C6: no step of the call changes the data or the mask of a field of radar
\* or of last_radar.
C6_InputsUnchanged == [][radar' = radar /\ last_radar' = last_radar]_vars

C6_Witness ==
    /\ ReturnedField
    /\ ~last_radar.isNone
    /\ \E i \in Gates : isnan(OrigGate(i)) /\ vel_volume.data[i] = rsl_badval
    /\ \E i \in Gates : OrigGate(i) = Num(5) /\ excluded.m[i]
    /\ \E i \in Gates :
         /\ isnan(last_radar.fields[last_vel_field].data[i])
         /\ last_vel_volume.data[i] = rsl_badval
    /\ \E i \in Gates : RawGate(i) = rsl_badval /\ result.data.mask[i]

\* create_soundvolume has reported failure
SoundvolumeFailed ==
    \E k \in DOMAIN soundvolume_calls : soundvolume_calls[k].success = 0

C8_ProfileValidatedFirst ==
    \A k \in DOMAIN soundvolume_calls : ProfileValid(soundvolume_calls[k].hc)

\* C9: with ba_mincount or ba_edgecount outside its range the call returns
\* nothing, and when the configuration error is raised no velocity volume,
\* last-scan volume or sounding volume has been built.
C9_NoPartialComputation ==
    ~ParametersInRange(kwargs) =>
        /\ pc # "returned"
        /\ (pc = "raised" /\ err.type = "ConfigurationError") =>
             /\ vel_volume.isNone
             /\ last_vel_volume.isNone
             /\ sound_volume.isNone
             /\ soundvolume_calls = <<>>

\* last_radar is given and its rays per sweep differ from those of radar
GeometryMismatch ==
    /\ ~last_radar.isNone
    /\ \/ Len(last_radar.sweep_end_ray_index) # Len(radar.sweep_end_ray_index)
       \/ \E s \in DOMAIN radar.sweep_end_ray_index :
            last_radar.sweep_end_ray_index[s] - last_radar.sweep_start_ray_index[s]
              # radar.sweep_end_ray_index[s] - radar.sweep_start_ray_index[s]

\* C10: when the rays per sweep of last_radar differ from those of radar the
\* call returns nothing, the engine produces no result, and once the engine
\* has been invoked the call has failed with the structural error.
C10_MismatchFailsCall ==
    GeometryMismatch =>
        /\ pc # "returned"
        /\ raw.isNone
        /\ result = NoResult
        /\ dealias_calls # <<>> =>
             (pc = "raised" /\ err.type = "ConfigurationError")

C10_Witness ==
    /\ GeometryMismatch
    /\ dealias_calls # <<>>
    /\ pc = "raised"
    /\ err.msg = "volume geometries differ"
    /\ ParametersInRange(kwargs)

\* every gate of the velocity field as passed is bad in the volume built from
\* it: the bad sentinel itself, NaN or the fill value
AllBadInput ==
    \A i \in Gates :
        CreateRslFdata(radar.fields["velocity"], rsl_badval, None).data[i]
            = rsl_badval

EngineCalled == dealias_calls # <<>>

\* C12: in a call with debug true the data is never prepared for output (no
\* raw pair is unpacked, no field dictionary is made) and what is returned is
\* the engine's debug output, holding the volumes handed to it; the steps
\* before the engine are those of any call: a call without a source is
\* aborted, the velocity volume is built from the velocity field with the
\* excluded gates, the last volume is built exactly when last_radar is given,
\* and the sounding volume is synthesized exactly when sounding data is given.
C12_DebugReturnsEngineOutput ==
    debug =>
        /\ pc # "prepare" /\ raw = NoRaw /\ result.kind # "field"
        /\ pc = "returned" =>
             /\ result.kind = "debug"
             /\ result.radialVelVolume = vel_volume
             /\ result.lastVelVolume = last_vel_volume
             /\ result.sondVolume = sound_volume
             /\ Len(dealias_calls) = 1
        /\ (FOURDD_AVAILABLE /\ NoSourceInputs /\ pc # "start") =>
             (pc = "raised" /\ err = NoSourceError)
        /\ EngineCalled =>
             /\ dealias_calls[1].debug
             /\ dealias_calls[1].vel_volume =
                  CreateRslVolume(radar, vel_field, 1, rsl_badval, excluded)
             /\ dealias_calls[1].last_vel_volume =
                  IF last_radar.isNone THEN None
                  ELSE CreateRslVolume(last_radar, last_vel_field, 1,
                                       rsl_badval, None)
             /\ soundvolume_calls =
                  IF sounding_available THEN <<SoundvolumeCall(1)>> ELSE <<>>
             /\ dealias_calls[1].sound_volume =
                  IF sounding_available
                  THEN SoundVolume(vel_volume, sounding_heights, sign)
                  ELSE None

C12_Witness ==
    /\ debug
    /\ pc = "returned"
    /\ result.kind = "debug"
    /\ ~result.lastVelVolume.isNone
    /\ ~result.sondVolume.isNone
    /\ soundvolume_calls # <<>>

\* C13: with last_vel_field None the last volume is built from the field of
\* last_radar that corr_vel_field names, whatever name the caller passed.
C13_LastFieldIsCorrVelField ==
    (~last_vel_volume.isNone) =>
        /\ last_vel_field = corr_vel_field
        /\ last_vel_volume =
             CreateRslVolume(last_radar, corr_vel_field, 1, rsl_badval, None)

\* C14 as stated: the synthesis of the sounding volume consumes nothing the
\* volume builder produced; no call of the synthesizer is handed a built
\* velocity volume.
C14_SynthesisIndependent ==
    \A k \in DOMAIN soundvolume_calls : soundvolume_calls[k].vel_volume.isNone

\* C14 amended: the synthesis of the sounding volume consumes the primary
\* velocity volume: every call of the synthesizer is made after the velocity
\* volume is built and is handed that volume, and a sounding volume that is
\* built has the geometry of the velocity volume.  The velocity volume is
\* built from the radar alone, whatever the sounding data.
C14_SynthesisUsesVelVolume ==
    /\ \A k \in DOMAIN soundvolume_calls :
         /\ ~vel_volume.isNone
         /\ soundvolume_calls[k].vel_volume = vel_volume
    /\ (~vel_volume.isNone) =>
         vel_volume = CreateRslVolume(radar, vel_field, 1, rsl_badval, excluded)
    /\ (~sound_volume.isNone) =>
         /\ soundvolume_calls # <<>>
         /\ sound_volume.rays_per_sweep = vel_volume.rays_per_sweep
         /\ sound_volume.nyquist = vel_volume.nyquist

C14_Witness ==
    /\ pc = "dealias"
    /\ ~sound_volume.isNone
    /\ Len(soundvolume_calls) = 1
    /\ soundvolume_calls[1].vel_volume = vel_volume
    /\ ~vel_volume.isNone

\* a read has come to its end
ReadEnded == func \in {"read_grid", "read_legacy_grid"} /\ pc \in {"returned", "raised"}

\* the variables of the file a read is to take for fields
FieldVariables ==
    {k \in DOMAIN dset.variables :
        /\ IF func = "read_grid" THEN k \notin reserved_variables
           ELSE k \notin axes_keys
        /\ k \notin exclude_fields}

\* C15: a read of a file, by read_grid or by read_legacy_grid, completes; the
\* fields of the Grid it returns are exactly the variables of shape
\* (1, nz, ny, nx) that are neither reserved nor excluded, each reshaped to
\* (nz, ny, nx), and every other such variable has been warned about.
C15_WrongShapeSkipped ==
    ReadEnded =>
        /\ pc = "returned"
        /\ result.kind = "Grid"
        /\ DOMAIN result.fields =
             {k \in FieldVariables : dset.variables[k] = field_shape_with_time}
        /\ \A k \in DOMAIN result.fields : result.fields[k] = field_shape
        /\ \A k \in FieldVariables :
             dset.variables[k] # field_shape_with_time =>
                \E i \in DOMAIN warned : warned[i] = SkippedWarning(k)

\* C16: every step of write_grid (the header, the writing of one field or its
\* failure, the close) leaves the data of every field of the grid with the
\* shape it had; so at every exit of write_grid, by return or by an error,
\* every field has the shape it had when the call was made.
C16_ShapesRestored ==
    [][func = "write_grid" => grid'.fields = grid.fields]_vars

====
